---- MODULE Spec2Model ----
(***************************************************************************)
(* dom-sim: the style-aware tree builder of src/src/main.ts.               *)
(*                                                                         *)
(* The page collects (html, css), injects them into one shared sandboxed   *)
(* iframe document, waits one animation frame, flattens the active style   *)
(* rules, converts the live body into a plain tree with layout summaries   *)
(* and displays the tree with its node counts.                             *)
(*                                                                         *)
(* The browser is single-threaded: every action below is one task of the   *)
(* event loop together with the microtasks (promise continuations) that    *)
(* the task leaves behind, run in the order the browser runs them.         *)
(***************************************************************************)
EXTENDS Integers, Sequences, FiniteSets, TLC

\* ------------------------------------------------------------------------
\* Bounds of the model
\* ------------------------------------------------------------------------

\* Generate events dispatched in one session.
MaxRequests == 3

\* ------------------------------------------------------------------------
\* Sequence helpers
\* ------------------------------------------------------------------------

RECURSIVE Flatten(_)
Flatten(ss) ==
    IF ss = <<>> THEN <<>> ELSE Head(ss) \o Flatten(Tail(ss))

Range(s) == {s[i] : i \in 1..Len(s)}

Last(s) == s[Len(s)]

\* ------------------------------------------------------------------------
\* Text normalization (normalizeTextNodeValue)
\* ------------------------------------------------------------------------

\* The characters /\s/ and String.prototype.trim treat as white space, of
\* those the inputs below use.
IsSpace(c) == c \in {" ", "\n", "\t"}

\* Mutant of CollapseSpace: runs of white space are left as they are.
RECURSIVE CollapseSpaceNever(_)
CollapseSpaceNever(s) ==
    IF s = <<>> THEN <<>> ELSE <<Head(s)>> \o CollapseSpaceNever(Tail(s))

\* value.replace(/\s+/g, " "): every maximal run of white space becomes one
\* space character.
RECURSIVE CollapseSpace(_)
CollapseSpace(s) ==
    IF s = <<>> THEN <<>>
    ELSE IF IsSpace(Head(s))
         THEN IF Len(s) > 1 /\ IsSpace(s[2])
              THEN CollapseSpace(Tail(s))
              ELSE <<" ">> \o CollapseSpace(Tail(s))
         ELSE <<Head(s)>> \o CollapseSpace(Tail(s))

RECURSIVE TrimStart(_)
TrimStart(s) ==
    IF s # <<>> /\ IsSpace(Head(s)) THEN TrimStart(Tail(s)) ELSE s

RECURSIVE TrimEnd(_)
TrimEnd(s) ==
    IF s # <<>> /\ IsSpace(s[Len(s)])
    THEN TrimEnd(SubSeq(s, 1, Len(s) - 1))
    ELSE s

Trim(s) == TrimEnd(TrimStart(s))

normalizeTextNodeValue(value) == Trim(CollapseSpace(value))

\* ------------------------------------------------------------------------
\* Property names, groups and levels
\* ------------------------------------------------------------------------

\* A property name is the sequence of its "-"-separated segments:
\* "padding-top" is <<"padding", "top">>, "color" is <<"color">>.
LAYOUT_PROPS ==
    << <<"display">>, <<"position">>, <<"flex", "direction">>,
       <<"justify", "content">>, <<"align", "items">>, <<"gap">> >>

LAYOUT_PROP_SET == Range(LAYOUT_PROPS)

\* prop.startsWith(word + "-")
StartsWithDash(prop, word) == Len(prop) > 1 /\ prop[1] = word

\* Mutant of EndsWithRadius: only the two-segment name counts as a radius.
EndsWithRadiusExactly(prop) == prop = <<"border", "radius">>

\* prop.endsWith("radius"), for names whose segments are whole words.
EndsWithRadius(prop) == prop # <<>> /\ prop[Len(prop)] = "radius"

\* Mutant of classifyPropsCount: the bands end one count early.
classifyPropsCountExclusive(propsCount) ==
    IF propsCount < 8 THEN "low"
    ELSE IF propsCount < 18 THEN "med"
    ELSE "high"

classifyPropsCount(propsCount) ==
    IF propsCount <= 8 THEN "low"
    ELSE IF propsCount <= 18 THEN "med"
    ELSE "high"

normalizePropertyGroup(prop) ==
    IF prop = <<>> THEN prop
    ELSE IF StartsWithDash(prop, "padding") THEN <<"padding">>
    ELSE IF StartsWithDash(prop, "margin") THEN <<"margin">>
    ELSE IF prop = <<"border", "radius">>
            \/ (StartsWithDash(prop, "border") /\ EndsWithRadius(prop))
         THEN <<"border", "radius">>
    ELSE IF prop = <<"border">> \/ StartsWithDash(prop, "border")
         THEN <<"border">>
    ELSE IF prop = <<"background">> \/ StartsWithDash(prop, "background")
         THEN <<"background">>
    ELSE IF prop = <<"font">> \/ StartsWithDash(prop, "font") THEN <<"font">>
    ELSE IF prop = <<"transition">> \/ StartsWithDash(prop, "transition")
         THEN <<"transition">>
    ELSE IF prop = <<"animation">> \/ StartsWithDash(prop, "animation")
         THEN <<"animation">>
    ELSE prop

\* ------------------------------------------------------------------------
\* The documents and stylesheets of the session (what the user types)
\* ------------------------------------------------------------------------

\* DOM nodes as the HTML parser yields them.  classAttr and styleAttr are the
\* raw attribute texts; text is the node's character data.
El(tag, id, classAttr, styleAttr, childNodes) ==
    [nodeType |-> "element", tag |-> tag, id |-> id, classAttr |-> classAttr,
     styleAttr |-> styleAttr, text |-> <<>>, childNodes |-> childNodes]

Tx(text) ==
    [nodeType |-> "text", tag |-> "", id |-> "", classAttr |-> "",
     styleAttr |-> "", text |-> text, childNodes |-> <<>>]

Cm ==
    [nodeType |-> "comment", tag |-> "", id |-> "", classAttr |-> "",
     styleAttr |-> "", text |-> <<>>, childNodes |-> <<>>]

Attr(name, value) == [name |-> name, value |-> value]

\* The HTML sources a generate request can carry.
\*   "cards"  <div class="a b"><p>Hi</p><p>There</p></div>
\*   "page"   <body id="main" class="k" style="display:grid"><!--c-->
\*            <section style="gap:4px"><span></span> \n </section>
\*            <em> <!--x-->\t</em> a  b </body>
\*   "vue"    <body data-x="1" @click="go"><p class="a">new</p></body>
\*   "blank"  only white space
HtmlInputs == {"cards", "page", "vue", "blank"}

\* The characters of the HTML source that matter to html.trim().
HtmlChars(html) ==
    CASE html = "blank" -> <<" ", "\n", " ">>
      [] OTHER -> <<"<", ">">>

\* The stylesheets a generate request can carry.
\*   ""       no CSS
\*   "flex"   .a { display: flex; padding-top: 1px; padding-left: 2px }
\*            @media print { p { position: absolute } }
\*            @media screen { p { position: relative } }
\*            section { position: sticky }
CssInputs == {"", "flex"}

\* DOMParser.parseFromString(html, "text/html").body.getAttributeNames()
\* with the values getAttribute returns, in source order.
ParsedBodyAttributes(html) ==
    CASE html = "page" ->
           <<Attr("id", "main"), Attr("class", "k"),
             Attr("style", "display:grid")>>
      [] html = "vue" -> <<Attr("data-x", "1"), Attr("@click", "go")>>
      [] OTHER -> <<>>

\* DOMParser.parseFromString(html, "text/html").body.innerHTML, as the node
\* list that assigning it to another body's innerHTML produces.
ParsedBodyMarkup(html) ==
    CASE html = "cards" ->
           <<El("div", "", "a b", "",
                <<El("p", "", "", "", <<Tx(<<"H", "i">>)>>),
                  El("p", "", "", "", <<Tx(<<"T", "h", "e", "r", "e">>)>>)>>)>>
      [] html = "page" ->
           <<Cm, Tx(<<" ">>),
             El("section", "", "", "gap:4px",
                <<El("span", "", "", "", <<>>), Tx(<<" ", "\n", " ">>)>>),
             El("em", "", "", "", <<Tx(<<" ">>), Cm, Tx(<<"\t">>)>>),
             Tx(<<" ", "a", " ", " ", "b", " ">>)>>
      [] html = "vue" ->
           <<El("p", "", "a", "", <<Tx(<<"n", "e", "w">>)>>)>>
      [] OTHER -> <<>>

\* Element.setAttribute raises InvalidCharacterError for a name that is not
\* a valid attribute name, although the HTML parser accepted it.
SetAttributeThrows(name) == name \in {"@click"}

\* element.classList of a class attribute text.
ClassList(classAttr) ==
    CASE classAttr = "a b" -> <<"a", "b">>
      [] classAttr = "" -> <<>>
      [] OTHER -> <<classAttr>>

Decl(prop, value) == [prop |-> prop, value |-> value]

\* element.style of a style attribute text: its declarations in order.
InlineStyle(styleAttr) ==
    CASE styleAttr = "display:grid" -> <<Decl(<<"display">>, "grid")>>
      [] styleAttr = "gap:4px" -> <<Decl(<<"gap">>, "4px")>>
      [] styleAttr = "margin-top:1px;margin-left:2px" ->
           <<Decl(<<"margin", "top">>, "1px"),
             Decl(<<"margin", "left">>, "2px")>>
      [] OTHER -> <<>>

\* CSSOM rules.  type is "style", "media", "supports", "layer" (a grouping
\* rule of another kind) or "other" (a rule without nested rules).
StyleRule(selectorText, style) ==
    [type |-> "style", selectorText |-> selectorText, style |-> style,
     conditionText |-> "", cssRules |-> <<>>]

GroupRule(type, conditionText, cssRules) ==
    [type |-> type, selectorText |-> "", style |-> <<>>,
     conditionText |-> conditionText, cssRules |-> cssRules]

\* styleEl.sheet.cssRules once the style block's text is css.
SheetRules(css) ==
    CASE css = "flex" ->
           <<StyleRule(".a", <<Decl(<<"display">>, "flex"),
                               Decl(<<"padding", "top">>, "1px"),
                               Decl(<<"padding", "left">>, "2px")>>),
             GroupRule("media", "print",
                <<StyleRule("p", <<Decl(<<"position">>, "absolute")>>)>>),
             GroupRule("media", "screen",
                <<StyleRule("p", <<Decl(<<"position">>, "relative")>>)>>),
             StyleRule("section", <<Decl(<<"position">>, "sticky")>>)>>
      [] OTHER -> <<>>

\* win.matchMedia(mediaText).matches in the sandbox window.
MatchMedia(mediaText) == mediaText = "screen"

\* What evaluating CSS.supports(conditionText) does in the runtime: "true",
\* "false", "throw", or "unavailable" when CSS.supports is no function.
CssSupports(conditionText) ==
    CASE conditionText = "(display: none-such)" -> "false"
      [] conditionText = "(throws)" -> "throw"
      [] conditionText = "(no-api)" -> "unavailable"
      [] OTHER -> "true"

\* element.matches(selectorText) for the selectors the stylesheets use: the
\* universal selector, a class selector ".c", else a type selector.
Matches(element, selectorText) ==
    CASE selectorText = "*" -> TRUE
      [] selectorText = ".a" -> "a" \in Range(ClassList(element.classAttr))
      [] selectorText = ".b" -> "b" \in Range(ClassList(element.classAttr))
      [] selectorText = ".k" -> "k" \in Range(ClassList(element.classAttr))
      [] OTHER -> element.tag = selectorText

\* element.matches raises SyntaxError for a selector it cannot parse.
MatchesThrows(selectorText) == selectorText = ":::broken"

\* ------------------------------------------------------------------------
\* Rule Extractor (extractActiveStyleRules)
\* ------------------------------------------------------------------------

\* A stylesheet handle, null when the style block has none.  realm is the
\* window whose constructors made the sheet's rule objects: "frame" for the
\* sandbox iframe's, "own" for those of the page the code runs in.
StyleSheet(realm, cssRules) ==
    [isNull |-> FALSE, realm |-> realm, cssRules |-> cssRules]

NullSheet == [isNull |-> TRUE, realm |-> "frame", cssRules |-> <<>>]

\* env.styleEl.sheet (line 347): the style block lives in the iframe's
\* document.
Sheet(css) == StyleSheet("frame", SheetRules(css))

\* ok of the supports branch: the try/catch leaves it true unless
\* CSS.supports is a function and returns false.
SupportsOk(conditionText) == CssSupports(conditionText) # "false"

\* Reading rule.cssRules raises for a rule of type "denied" (a security
\* restriction of the runtime).
CssRulesThrows(rule) == rule.type = "denied"

\* The state of a walk: out is the list collected so far, threw tells
\* whether an error was raised, which ends the walk.
Walked(threw, out) == [threw |-> threw, out |-> out]

\* The walk goes on with the rules after the first one unless the first
\* one raised.
WalkedOn(first, rest) ==
    IF first.threw THEN first
    ELSE Walked(rest.threw, first.out \o rest.out)

\* rule instanceof C, with C the constructor CSSMediaRule or
\* CSSSupportsRule of the page's own window (lines 143 and 149): the
\* prototype chain of a rule object made in another window does not hold
\* the page's C.prototype.
InstanceOf(rule, type, realm) == rule.type = type /\ realm = "own"

RECURSIVE walk(_, _)

\* The body of the loop of walk for one rule (lines 138-162).
WalkRule(rule, realm) ==
    IF rule.type = "style" THEN Walked(FALSE, <<rule>>)
    ELSE IF InstanceOf(rule, "media", realm)
    THEN IF rule.conditionText = "" \/ MatchMedia(rule.conditionText)
         THEN walk(rule.cssRules, realm)
         ELSE Walked(FALSE, <<>>)
    ELSE IF InstanceOf(rule, "supports", realm)
    THEN IF SupportsOk(rule.conditionText)
         THEN walk(rule.cssRules, realm)
         ELSE Walked(FALSE, <<>>)
    ELSE IF CssRulesThrows(rule) THEN Walked(TRUE, <<>>)
    ELSE walk(rule.cssRules, realm)

walk(rules, realm) ==
    IF rules = <<>> THEN Walked(FALSE, <<>>)
    ELSE WalkedOn(WalkRule(Head(rules), realm), walk(Tail(rules), realm))

\* Mutant of Caught: the rules collected before the error are returned.
CaughtKeeping(walked) == walked.out

\* Lines 165-171: the catch returns the empty list, else out is returned.
Caught(walked) == IF walked.threw THEN <<>> ELSE walked.out

extractActiveStyleRules(sheet) ==
    IF sheet.isNull THEN <<>> ELSE Caught(walk(sheet.cssRules, sheet.realm))

\* ------------------------------------------------------------------------
\* Match Statistics Engine (getCssMatchStats)
\* ------------------------------------------------------------------------

\* A StyleContext or null.  win is what the sandbox window answers while the
\* tree is converted: the rules of the style sheet its document applies and
\* whether getComputedStyle returns a style object ("ok") or null ("null").
NullCtx ==
    [isNull |-> TRUE, win |-> [cssRules |-> <<>>, computedStyle |-> "ok"],
     rules |-> <<>>]

StyleContext(win, rules) == [isNull |-> FALSE, win |-> win, rules |-> rules]

EmptyStats ==
    [rulesMatched |-> 0, longhandsCount |-> 0, propGroups |-> {},
     declaredLayoutProps |-> {}, inlinePresent |-> FALSE]

\* Mutant of AddDeclarations: a property is counted once per group, not
\* once per declaration.
RECURSIVE AddDeclarationsOncePerGroup(_, _)
AddDeclarationsOncePerGroup(stats, decl) ==
    IF decl = <<>> THEN stats
    ELSE AddDeclarationsOncePerGroup(
           [stats EXCEPT
              !.longhandsCount =
                  IF normalizePropertyGroup(Head(decl).prop) \in stats.propGroups
                  THEN @ ELSE @ + 1,
              !.propGroups = @ \cup {normalizePropertyGroup(Head(decl).prop)},
              !.declaredLayoutProps =
                  IF Head(decl).prop \in LAYOUT_PROP_SET
                  THEN @ \cup {Head(decl).prop} ELSE @],
           Tail(decl))

\* The loop over one declaration block (lines 202-208 and 214-220).
RECURSIVE AddDeclarations(_, _)
AddDeclarations(stats, decl) ==
    IF decl = <<>> THEN stats
    ELSE LET prop == Head(decl).prop
             next ==
               IF prop = <<>> THEN stats
               ELSE [stats EXCEPT
                       !.longhandsCount = @ + 1,
                       !.propGroups = @ \cup {normalizePropertyGroup(prop)},
                       !.declaredLayoutProps =
                           IF prop \in LAYOUT_PROP_SET THEN @ \cup {prop} ELSE @]
         IN AddDeclarations(next, Tail(decl))

\* Mutant of AddRules: the error element.matches raises ends the loop.
RECURSIVE AddRulesAborting(_, _, _)
AddRulesAborting(stats, element, rules) ==
    IF rules = <<>> THEN stats
    ELSE IF MatchesThrows(Head(rules).selectorText) THEN stats
    ELSE AddRulesAborting(
           IF Matches(element, Head(rules).selectorText)
           THEN AddDeclarations([stats EXCEPT !.rulesMatched = @ + 1],
                                Head(rules).style)
           ELSE stats,
           element, Tail(rules))

\* The loop over ctx.rules (lines 191-209).
RECURSIVE AddRules(_, _, _)
AddRules(stats, element, rules) ==
    IF rules = <<>> THEN stats
    ELSE LET rule == Head(rules)
             next ==
               IF MatchesThrows(rule.selectorText) THEN stats
               ELSE IF ~Matches(element, rule.selectorText) THEN stats
               ELSE AddDeclarations(
                      [stats EXCEPT !.rulesMatched = @ + 1], rule.style)
         IN AddRules(next, element, Tail(rules))

getCssMatchStats(element, ctx) ==
    IF ctx.isNull THEN EmptyStats
    ELSE LET matched == AddRules(EmptyStats, element, ctx.rules)
             inlineStyle == InlineStyle(element.styleAttr)
             inlinePresent == Len(inlineStyle) # 0
         IN [AddDeclarations(matched, inlineStyle)
               EXCEPT !.inlinePresent = inlinePresent]

\* ------------------------------------------------------------------------
\* Layout Summary Builder (buildLayoutSummary)
\* ------------------------------------------------------------------------

\* The rules the rendering engine itself applies from a rule list.
RECURSIVE HostActiveRules(_)
HostActiveRules(rules) ==
    IF rules = <<>> THEN <<>>
    ELSE LET rule == Head(rules)
             out ==
               CASE rule.type = "style" -> <<rule>>
                 [] rule.type = "media" ->
                      IF rule.conditionText = "" \/ MatchMedia(rule.conditionText)
                      THEN HostActiveRules(rule.cssRules)
                      ELSE <<>>
                 [] rule.type = "supports" ->
                      IF CssSupports(rule.conditionText) = "true"
                      THEN HostActiveRules(rule.cssRules)
                      ELSE <<>>
                 [] OTHER -> HostActiveRules(rule.cssRules)
         IN out \o HostActiveRules(Tail(rules))

\* The engine's initial value of a layout property for an element.
InitialValue(element, prop) ==
    CASE prop = <<"display">> ->
           IF element.tag \in {"span", "em"} THEN "inline" ELSE "block"
      [] prop = <<"position">> -> "static"
      [] prop = <<"flex", "direction">> -> "row"
      [] OTHER -> "normal"

\* The declarations of the rules that match the element, in source order.
RECURSIVE MatchingDeclarations(_, _)
MatchingDeclarations(element, rules) ==
    IF rules = <<>> THEN <<>>
    ELSE (IF ~MatchesThrows(Head(rules).selectorText)
             /\ Matches(element, Head(rules).selectorText)
          THEN Head(rules).style
          ELSE <<>>)
         \o MatchingDeclarations(element, Tail(rules))

\* The declarations that apply to the element, in cascade order: those of
\* the matching rules, then the inline ones.
AppliedDeclarations(element, win) ==
    MatchingDeclarations(element, HostActiveRules(win.cssRules))
      \o InlineStyle(element.styleAttr)

\* The value the last declaration of prop gives, else the initial value.
RECURSIVE Cascade(_, _, _)
Cascade(decls, prop, initial) ==
    IF decls = <<>> THEN initial
    ELSE IF decls[Len(decls)].prop = prop THEN decls[Len(decls)].value
    ELSE Cascade(SubSeq(decls, 1, Len(decls) - 1), prop, initial)

\* win.getComputedStyle(element) (line 236), as the values its
\* getPropertyValue returns for the layout properties.
ComputedStyleOf(element, decls) ==
    [prop \in LAYOUT_PROP_SET |->
       Cascade(decls, prop, InitialValue(element, prop))]

getComputedStyle(element, win) ==
    ComputedStyleOf(element, AppliedDeclarations(element, win))

\* computed.getPropertyValue(prop).trim(); the engine serializes these
\* keyword and length values without surrounding white space.
getValue(computed, prop) == computed[prop]

\* displayValue.includes(word) for word "flex" or "grid".
Includes(value, word) ==
    \/ word = "flex" /\ value \in {"flex", "inline-flex"}
    \/ word = "grid" /\ value \in {"grid", "inline-grid"}

\* Mutant of hasDecl: a chip is flagged as soon as any layout property is
\* declared.
hasDeclAny(stats, prop) == stats.declaredLayoutProps # {}

hasDecl(stats, prop) == prop \in stats.declaredLayoutProps

Chip(computed, stats, prop) ==
    [prop |-> prop, value |-> getValue(computed, prop),
     title |-> <<prop, ": ", getValue(computed, prop)>>,
     declared |-> hasDecl(stats, prop)]

\* pushIf(prop, shouldShow)
pushIf(computed, stats, prop, shouldShow) ==
    IF shouldShow THEN <<Chip(computed, stats, prop)>> ELSE <<>>

\* Mutant of isFlex: only the value "flex" itself counts.
isFlexExactly(computed) == getValue(computed, <<"display">>) = "flex"

isFlex(computed) == Includes(getValue(computed, <<"display">>), "flex")

\* Mutant of isGrid: only the value "grid" itself counts.
isGridExactly(computed) == getValue(computed, <<"display">>) = "grid"

isGrid(computed) == Includes(getValue(computed, <<"display">>), "grid")

\* Lines 231-277, with the statistics and the computed style in hand.
LayoutSummary(stats, computed) ==
    [chips |->
       <<Chip(computed, stats, <<"display">>),
         Chip(computed, stats, <<"position">>)>>
       \o pushIf(computed, stats, <<"flex", "direction">>,
                 isFlex(computed) \/ hasDecl(stats, <<"flex", "direction">>))
       \o pushIf(computed, stats, <<"justify", "content">>,
                 isFlex(computed) \/ hasDecl(stats, <<"justify", "content">>))
       \o pushIf(computed, stats, <<"align", "items">>,
                 isFlex(computed) \/ hasDecl(stats, <<"align", "items">>))
       \o pushIf(computed, stats, <<"gap">>,
                 isFlex(computed) \/ isGrid(computed)
                 \/ hasDecl(stats, <<"gap">>)),
     rulesCount |-> stats.rulesMatched + (IF stats.inlinePresent THEN 1 ELSE 0),
     propsCount |-> Cardinality(stats.propGroups),
     longhandsCount |-> stats.longhandsCount,
     propsLevel |-> classifyPropsCount(Cardinality(stats.propGroups))]

\* The result of a call: threw tells whether it raised, layout is the
\* returned summary, <<>> for undefined.  Reading a property of the null
\* that getComputedStyle returned raises a TypeError (line 237).
buildLayoutSummary(element, ctx) ==
    IF ctx.isNull THEN [threw |-> FALSE, layout |-> <<>>]
    ELSE IF ctx.win.computedStyle = "null"
         THEN [threw |-> TRUE, layout |-> <<>>]
    ELSE [threw |-> FALSE,
          layout |-> <<LayoutSummary(getCssMatchStats(element, ctx),
                                     getComputedStyle(element, ctx.win))>>]

\* ------------------------------------------------------------------------
\* Tree Builder (elementToTree, countTreeNodes)
\* ------------------------------------------------------------------------

ElementTreeNode(tag, id, classes, children, layout) ==
    [type |-> "element", tag |-> tag, id |-> id, classes |-> classes,
     text |-> <<>>, children |-> children, layout |-> layout]

TextTreeNode(text) ==
    [type |-> "text", tag |-> "", id |-> "", classes |-> <<>>,
     text |-> text, children |-> <<>>, layout |-> <<>>]

\* Mutant of HasLayout: the summary is computed for every element.
HasLayoutAlways(children) == TRUE

\* Whether the element gets a layout summary computed (line 377).
HasLayout(children) == Len(children) > 0

\* The result of a call: threw tells whether it raised, node is the tree.
\* ConvertChildren is the childNodes.forEach loop of lines 359-369: the
\* children list it fills.
RECURSIVE elementToTree(_, _)
RECURSIVE ConvertChildren(_, _)

\* The children list extended by the nodes of one more converted child.
Pushed(rest, threw, nodes) ==
    [threw |-> threw \/ rest.threw, nodes |-> nodes \o rest.nodes]

PushedElement(rest, sub) == Pushed(rest, sub.threw, <<sub.node>>)

\* Mutant of PushedText: a text child is kept whatever its normalized
\* content is.
PushedTextAlways(rest, normalized) ==
    Pushed(rest, FALSE, <<TextTreeNode(normalized)>>)

PushedText(rest, normalized) ==
    Pushed(rest, FALSE,
           IF normalized # <<>> THEN <<TextTreeNode(normalized)>> ELSE <<>>)

ConvertChildren(childNodes, ctx) ==
    IF childNodes = <<>> THEN [threw |-> FALSE, nodes |-> <<>>]
    ELSE IF Head(childNodes).nodeType = "element"
    THEN PushedElement(ConvertChildren(Tail(childNodes), ctx),
                       elementToTree(Head(childNodes), ctx))
    ELSE IF Head(childNodes).nodeType = "text"
    THEN PushedText(ConvertChildren(Tail(childNodes), ctx),
                    normalizeTextNodeValue(Head(childNodes).text))
    ELSE ConvertChildren(Tail(childNodes), ctx)

\* Lines 371-378, with the children and the layout call's result in hand.
TreeResult(element, converted, summary) ==
    [threw |-> converted.threw \/ summary.threw,
     node |-> ElementTreeNode(element.tag, element.id,
                              ClassList(element.classAttr), converted.nodes,
                              summary.layout)]

\* Line 377.
LayoutFor(element, ctx, children) ==
    IF HasLayout(children)
    THEN buildLayoutSummary(element, ctx)
    ELSE [threw |-> FALSE, layout |-> <<>>]

WithChildren(element, ctx, converted) ==
    TreeResult(element, converted, LayoutFor(element, ctx, converted.nodes))

elementToTree(element, ctx) ==
    WithChildren(element, ctx, ConvertChildren(element.childNodes, ctx))

\* The counts of a node, given the counts of its children.
RECURSIVE AddCounts(_)
AddCounts(counts) ==
    IF counts = <<>> THEN [elements |-> 0, texts |-> 0]
    ELSE [elements |-> Head(counts).elements + AddCounts(Tail(counts)).elements,
          texts |-> Head(counts).texts + AddCounts(Tail(counts)).texts]

\* Mutant of Totalled: the total leaves the text nodes out.
TotalledWithoutTexts(elements, texts) ==
    [elements |-> elements, texts |-> texts, total |-> elements]

Totalled(elements, texts) ==
    [elements |-> elements, texts |-> texts, total |-> elements + texts]

RECURSIVE countTreeNodes(_)
countTreeNodes(node) ==
    IF node.type = "text"
    THEN Totalled(0, 1)
    ELSE Totalled(
           1 + AddCounts([i \in 1..Len(node.children) |->
                            countTreeNodes(node.children[i])]).elements,
           AddCounts([i \in 1..Len(node.children) |->
                        countTreeNodes(node.children[i])]).texts)

\* ------------------------------------------------------------------------
\* State
\* ------------------------------------------------------------------------

VARIABLES
    sandboxEnvPromise,  \* "null", "pending", "fulfilled" or "rejected"
    frames,             \* sandbox iframes appended to the page so far
    styleText,          \* env.styleEl.textContent
    bodyAttributes,     \* attributes of env.doc.body, in order
    bodyMarkup,         \* child nodes of env.doc.body
    builds,             \* the renderTree calls, in the order they were made
    treeContainer,      \* the displayed tree: <<>> or <<root node>>
    treeMeta,           \* the displayed counts: <<>> or <<counts>>
    requests,           \* generate clicks and events so far
    nodeValue,          \* a text node's value, as a sequence of characters
    normalizedValue,    \* normalizeTextNodeValue(nodeValue)
    propName,           \* a property name, as its "-"-separated segments
    propGroup,          \* normalizePropertyGroup(propName)
    sheetRules,         \* the rules of a style sheet
    styledElement,      \* <<>> or <<an element the sheet applies to>>
    elementLayout,      \* <<>> or <<the element's layout summary>>
    styleSheet,         \* a style sheet handle: null or a rule tree
    activeRules,        \* extractActiveStyleRules(styleSheet)
    sheetBuild,         \* <<the result of building a tree under that sheet>>
    dragCounter,        \* dragCounter of each drop panel
    isDragover,         \* whether each panel's classList has is-dragover
    textareaValue,      \* the value of each panel's textarea
    fileReads,          \* the file.text() reads under way: <<panel, file>>
    dragEvent,          \* the drag, drop or blur event handled last
    fileInputs          \* the temporary file inputs created, in order

pageVars ==
    <<sandboxEnvPromise, frames, styleText, bodyAttributes, bodyMarkup,
      builds, treeContainer, treeMeta, requests>>

textVars == <<nodeValue, normalizedValue>>

propVars == <<propName, propGroup>>

styleVars == <<sheetRules, styledElement, elementLayout>>

sheetVars == <<styleSheet, activeRules, sheetBuild>>

dropVars == <<dragCounter, isDragover, textareaValue, fileReads, dragEvent>>

pickerVars == <<fileInputs>>

vars ==
    <<pageVars, textVars, propVars, styleVars, sheetVars, dropVars,
      pickerVars>>

\* One renderTree(html, css) call.  pc is where it is suspended: "awaitEnv"
\* at await ensureSandboxEnv(), "awaitFrame" at the requestAnimationFrame
\* promise, "done" once the call has returned or raised.  path is "sandbox"
\* or "fallback" (the catch of line 524) once decided; rendered tells whether
\* the call wrote the tree and the counts to the page, tree and counts what.
Build(html, css) ==
    [html |-> html, css |-> css, pc |-> "awaitEnv", path |-> "",
     rendered |-> FALSE, threw |-> FALSE, tree |-> <<>>, counts |-> <<>>]

\* ------------------------------------------------------------------------
\* Isolated Render Context (ensureSandboxEnv, buildStyleContext)
\* ------------------------------------------------------------------------

\* Mutant of canGenerate: every HTML can be generated.
canGenerateAlways(html) == TRUE

canGenerate(html) == Len(Trim(HtmlChars(html))) > 0

\* body.getAttribute(name) ?? "" over an attribute list.
GetAttribute(attrs, name) ==
    LET found == SelectSeq(attrs, LAMBDA a : a.name = name)
    IN IF found = <<>> THEN "" ELSE found[1].value

\* The body element of a document with these attributes and child nodes.
BodyElement(attrs, markup) ==
    El("body", GetAttribute(attrs, "id"), GetAttribute(attrs, "class"),
       GetAttribute(attrs, "style"), markup)

\* Mutant of RemoveBodyAttributes: the attributes of the earlier build stay.
KeepBodyAttributes(attrs) == attrs

\* Line 338: every attribute the body has is removed.
RemoveBodyAttributes(attrs) == <<>>

\* body.setAttribute(name, value): replaces the value of an attribute the
\* body has, appends the attribute otherwise.
SetAttribute(attrs, name, value) ==
    IF \E i \in 1..Len(attrs) : attrs[i].name = name
    THEN [i \in 1..Len(attrs) |->
            IF attrs[i].name = name THEN Attr(name, value) ELSE attrs[i]]
    ELSE Append(attrs, Attr(name, value))

\* Lines 339-341: the parsed body's attributes are set in order; the loop
\* stops where setAttribute raises.
RECURSIVE CopyBodyAttributes(_, _)
CopyBodyAttributes(attrs, parsed) ==
    IF parsed = <<>> THEN [threw |-> FALSE, attrs |-> attrs]
    ELSE IF SetAttributeThrows(Head(parsed).name)
         THEN [threw |-> TRUE, attrs |-> attrs]
    ELSE CopyBodyAttributes(
           SetAttribute(attrs, Head(parsed).name, Head(parsed).value),
           Tail(parsed))

\* Line 336: the style block's text after the injection of css.
InjectStyle(old, css) == css

\* Lines 334-343 on the sandbox document st: the document they leave, and
\* whether they raised before the body markup was replaced.
Inject(st, html, css) ==
    LET copied == CopyBodyAttributes(RemoveBodyAttributes(st.bodyAttributes),
                                     ParsedBodyAttributes(html))
    IN [threw |-> copied.threw,
        st |-> [st EXCEPT
                  !.styleText = InjectStyle(@, css),
                  !.bodyAttributes = copied.attrs,
                  !.bodyMarkup = IF copied.threw THEN @
                                 ELSE ParsedBodyMarkup(html)]]

\* Lines 347-354: the root and the StyleContext read from the sandbox.
ReadContext(st, computedStyle) ==
    [root |-> BodyElement(st.bodyAttributes, st.bodyMarkup),
     ctx |-> StyleContext(
               [cssRules |-> SheetRules(st.styleText),
                computedStyle |-> computedStyle],
               extractActiveStyleRules(Sheet(st.styleText)))]

\* ------------------------------------------------------------------------
\* renderTree
\* ------------------------------------------------------------------------

\* Mutant of CatchContext: the catch parses the HTML but leaves a style
\* context in place of null.
CatchContextWithStyle(html) ==
    [root |-> BodyElement(ParsedBodyAttributes(html), ParsedBodyMarkup(html)),
     ctx |-> StyleContext([cssRules |-> <<>>, computedStyle |-> "ok"], <<>>)]

\* The context the catch of lines 524-528 leaves.
CatchContext(html) ==
    [root |-> BodyElement(ParsedBodyAttributes(html), ParsedBodyMarkup(html)),
     ctx |-> NullCtx]

\* Lines 533-541: the tree and its counts replace what is displayed.
Display(st, b, path, node, counts) ==
    [st EXCEPT !.builds[b].pc = "done", !.builds[b].path = path,
               !.builds[b].rendered = TRUE,
               !.builds[b].tree = <<node>>,
               !.builds[b].counts = <<counts>>,
               !.treeContainer = <<node>>,
               !.treeMeta = <<counts>>]

\* Lines 530-541 with the result of elementToTree in hand: an error it
\* raised rejects the promise of renderTree, which nothing handles (line
\* 578), and the page keeps what it displayed.
Rendered(st, b, path, built) ==
    IF built.threw
    THEN [st EXCEPT !.builds[b].pc = "done", !.builds[b].path = path,
                    !.builds[b].threw = TRUE]
    ELSE Display(st, b, path, built.node, countTreeNodes(built.node))

\* Lines 530-541 for build b with the root and context of sandbox.
Render(st, b, path, sandbox) ==
    Rendered(st, b, path, elementToTree(sandbox.root, sandbox.ctx))

\* Lines 521-528 once the injection has run: an injection that raised lands
\* in the catch, which renders at once; a successful one suspends at
\* requestAnimationFrame.
AfterInject(b, html, inj) ==
    IF inj.threw
    THEN Render(inj.st, b, "fallback", CatchContext(html))
    ELSE [inj.st EXCEPT !.builds[b].pc = "awaitFrame",
                        !.builds[b].path = "sandbox"]

\* Build b resumes after await ensureSandboxEnv(): a rejected promise lands
\* in the catch of renderTree, a fulfilled one lets the injection run.
ResumeAfterEnv(st, b, promise) ==
    IF promise = "rejected"
    THEN Render(st, b, "fallback", CatchContext(st.builds[b].html))
    ELSE AfterInject(b, st.builds[b].html,
                     Inject(st, st.builds[b].html, st.builds[b].css))

\* Build b resumes after the animation frame.
ResumeAfterFrame(st, b, computedStyle) ==
    Render(st, b, "sandbox", ReadContext(st, computedStyle))

\* The continuations of the builds suspended at pc run in the order the
\* builds were started (promise reactions and animation frame callbacks
\* run first-registered first).
RECURSIVE Drain(_, _, _, _)
Drain(st, b, pc, arg) ==
    IF b > Len(st.builds) THEN st
    ELSE IF st.builds[b].pc # pc THEN Drain(st, b + 1, pc, arg)
    ELSE IF pc = "awaitEnv" THEN Drain(ResumeAfterEnv(st, b, arg), b + 1, pc, arg)
    ELSE Drain(ResumeAfterFrame(st, b, arg), b + 1, pc, arg)

Page ==
    [styleText |-> styleText, bodyAttributes |-> bodyAttributes,
     bodyMarkup |-> bodyMarkup, builds |-> builds,
     treeContainer |-> treeContainer, treeMeta |-> treeMeta]

Commit(st) ==
    /\ styleText' = st.styleText
    /\ bodyAttributes' = st.bodyAttributes
    /\ bodyMarkup' = st.bodyMarkup
    /\ builds' = st.builds
    /\ treeContainer' = st.treeContainer
    /\ treeMeta' = st.treeMeta

\* ------------------------------------------------------------------------
\* Actions: the tasks of the event loop
\* ------------------------------------------------------------------------

InitPage ==
    /\ sandboxEnvPromise = "null"
    /\ frames = 0
    /\ styleText = ""
    /\ bodyAttributes = <<>>
    /\ bodyMarkup = <<>>
    /\ builds = <<>>
    /\ treeContainer = <<>>
    /\ treeMeta = <<>>
    /\ requests = 0

\* The inputs of the functions studied on their own, before any is drawn.
InitText == nodeValue = <<>> /\ normalizedValue = <<>>

InitProp == propName = <<>> /\ propGroup = <<>>

InitStyle ==
    sheetRules = <<>> /\ styledElement = <<>> /\ elementLayout = <<>>

\* The document the tree is built from under the sheet:
\*   <body><p class="a">x</p></body>
SheetRoot ==
    BodyElement(<<>>, <<El("p", "", "a", "", <<Tx(<<"x">>)>>)>>)

\* Lines 349-353 and 530: the tree is built with the style context that
\* holds the rules extracted from the sheet.
BuiltUnder(sheet, rules) ==
    <<elementToTree(
        SheetRoot,
        StyleContext([cssRules |-> sheet.cssRules, computedStyle |-> "ok"],
                     rules))>>

\* No sheet examined yet: the handle is null.
InitSheet ==
    /\ styleSheet = NullSheet
    /\ activeRules = extractActiveStyleRules(NullSheet)
    /\ sheetBuild = BuiltUnder(NullSheet, activeRules)

\* The drop panels as addFileDrop finds them (line 617): no drag under way,
\* no highlight, the textareas empty.
Panels == {"html", "css"}

InitDrop ==
    /\ dragCounter = [panel \in Panels |-> 0]
    /\ isDragover = [panel \in Panels |-> FALSE]
    /\ textareaValue = [panel \in Panels |-> ""]
    /\ fileReads = {}
    /\ dragEvent = "none"

InitPicker == fileInputs = <<>>

InitOther == InitSheet /\ InitDrop /\ InitPicker

Init == InitPage /\ InitText /\ InitProp /\ InitStyle /\ InitOther

\* Mutant of ensureSandboxEnv: a rejected promise is not kept, the sandbox is
\* constructed again.
ensureSandboxEnvRetrying(promise, iframes) ==
    IF promise \in {"pending", "fulfilled"}
    THEN [promise |-> promise, frames |-> iframes]
    ELSE [promise |-> "pending", frames |-> iframes + 1]

\* Mutant of ensureSandboxEnv: only a settled promise is reused, a build
\* started while the sandbox loads constructs another one.
ensureSandboxEnvUnmemoized(promise, iframes) ==
    IF promise \in {"fulfilled", "rejected"}
    THEN [promise |-> promise, frames |-> iframes]
    ELSE [promise |-> "pending", frames |-> iframes + 1]

\* ensureSandboxEnv (lines 286-329): the memoized promise is returned if
\* there is one; else an iframe is appended and a pending promise stored.
ensureSandboxEnv(promise, iframes) ==
    IF promise # "null"
    THEN [promise |-> promise, frames |-> iframes]
    ELSE [promise |-> "pending", frames |-> iframes + 1]

\* The GENERATE_EVENT listener (lines 572-579) on an event with detail
\* (html, css).  It starts renderTree, which runs to await
\* ensureSandboxEnv(); if the promise is already settled the build resumes
\* in the same task.
OnGenerate(html, css) ==
    IF ~canGenerate(html)
    THEN UNCHANGED <<sandboxEnvPromise, frames, styleText, bodyAttributes,
                     bodyMarkup, builds, treeContainer, treeMeta>>
    ELSE LET env == ensureSandboxEnv(sandboxEnvPromise, frames)
             started == [Page EXCEPT !.builds = Append(@, Build(html, css))]
         IN /\ sandboxEnvPromise' = env.promise
            /\ frames' = env.frames
            /\ IF env.promise = "pending"
               THEN Commit(started)
               ELSE Commit(ResumeAfterEnv(started, Len(started.builds),
                                          env.promise))

\* A GENERATE_EVENT is dispatched on the document with (html, css).
Generate(html, css) ==
    /\ requests < MaxRequests
    /\ requests' = requests + 1
    /\ OnGenerate(html, css)
    /\ UNCHANGED <<textVars, propVars, styleVars, sheetVars, dropVars,
                   pickerVars>>

\* A click on the generate button while the editors hold (html, css)
\* (lines 561-570): the event is dispatched, synchronously, only for HTML
\* that can be generated.
Click(html, css) ==
    /\ requests < MaxRequests
    /\ requests' = requests + 1
    /\ IF ~canGenerate(html)
       THEN UNCHANGED <<sandboxEnvPromise, frames, styleText, bodyAttributes,
                        bodyMarkup, builds, treeContainer, treeMeta>>
       ELSE OnGenerate(html, css)
    /\ UNCHANGED <<textVars, propVars, styleVars, sheetVars, dropVars,
                   pickerVars>>

\* The iframe's load event (lines 296-313): the promise is fulfilled when
\* the frame exposes its window, document and style block, else rejected;
\* the builds waiting for it resume.
FrameLoad(exposed) ==
    /\ sandboxEnvPromise = "pending"
    /\ sandboxEnvPromise' = IF exposed THEN "fulfilled" ELSE "rejected"
    /\ Commit(Drain(Page, 1, "awaitEnv", sandboxEnvPromise'))
    /\ UNCHANGED <<frames, requests, textVars, propVars, styleVars,
                   sheetVars, dropVars, pickerVars>>

\* The sandbox window's next animation frame: the requestAnimationFrame
\* callbacks registered by the waiting builds run.  computedStyle is what
\* getComputedStyle returns in that window.
AnimationFrame(computedStyle) ==
    /\ \E b \in 1..Len(builds) : builds[b].pc = "awaitFrame"
    /\ Commit(Drain(Page, 1, "awaitFrame", computedStyle))
    /\ UNCHANGED <<sandboxEnvPromise, frames, requests, textVars, propVars,
                   styleVars, sheetVars, dropVars, pickerVars>>

Next ==
    \/ \E html \in HtmlInputs, css \in CssInputs : Generate(html, css)
    \/ \E html \in HtmlInputs, css \in CssInputs : Click(html, css)
    \/ \E exposed \in BOOLEAN : FrameLoad(exposed)
    \/ \E computedStyle \in {"ok", "null"} : AnimationFrame(computedStyle)

Spec == Init /\ [][Next]_vars

\* ------------------------------------------------------------------------
\* The layout summary of one element under a style sheet
\* ------------------------------------------------------------------------

\* Style rules in one sheet.
MaxRules == 3

\* Declarations of the given property names, in order.
Declarations(props) == [i \in 1..Len(props) |-> Decl(props[i], "v")]

\* The style rules a sheet is written from.
\*   .a { display: flex; padding-top: 1px; padding-left: 2px }
\*   .b { display: inline-flex }
\*   p { justify-content: center; gap: 4px }
\*   em { display: inline-grid; flex-direction: column }
\*   a rule element.matches cannot parse the selector of
\*   * { eight properties of eight groups }
\*   * { background-color: v }
\*   * { ten properties of ten more groups }
StyleRulePool ==
    {StyleRule(".a", <<Decl(<<"display">>, "flex"),
                       Decl(<<"padding", "top">>, "1px"),
                       Decl(<<"padding", "left">>, "2px")>>),
     StyleRule(".b", <<Decl(<<"display">>, "inline-flex")>>),
     StyleRule("p", <<Decl(<<"justify", "content">>, "center"),
                      Decl(<<"gap">>, "4px")>>),
     StyleRule("em", <<Decl(<<"display">>, "inline-grid"),
                       Decl(<<"flex", "direction">>, "column")>>),
     StyleRule(":::broken", <<Decl(<<"align", "items">>, "center"),
                              Decl(<<"color">>, "red")>>),
     StyleRule("*", Declarations(
        << <<"color">>, <<"width">>, <<"height">>, <<"opacity">>,
           <<"margin", "top">>, <<"border", "top", "left", "radius">>,
           <<"border", "color">>, <<"font", "size">> >>)),
     StyleRule("*", Declarations(<< <<"background", "color">> >>)),
     StyleRule("*", Declarations(
        << <<"top">>, <<"left">>, <<"right">>, <<"bottom">>, <<"overflow">>,
           <<"cursor">>, <<"float">>, <<"clear">>, <<"content">>,
           <<"order">> >>))}

\* The elements a summary is built for.
\*   <div class="a b">  <p>  <section style="gap:4px">
\*   <span style="display:grid">  <em>
\*   <div style="margin-top:1px;margin-left:2px">
StyledElements ==
    {El("div", "", "a b", "", <<>>),
     El("p", "", "", "", <<>>),
     El("section", "", "", "gap:4px", <<>>),
     El("span", "", "", "display:grid", <<>>),
     El("em", "", "", "", <<>>),
     El("div", "", "", "margin-top:1px;margin-left:2px", <<>>)}

\* Lines 347-354 for a sandbox whose style sheet holds rules.
StyleContextOf(rules) ==
    StyleContext([cssRules |-> rules, computedStyle |-> "ok"],
                 extractActiveStyleRules(StyleSheet("frame", rules)))

\* An element is picked, and summarized under the empty sheet.
InitStyled ==
    /\ InitPage /\ InitText /\ InitProp /\ InitOther
    /\ sheetRules = <<>>
    /\ \E picked \in StyledElements :
         /\ styledElement = <<picked>>
         /\ elementLayout = buildLayoutSummary(picked, StyleContextOf(<<>>)).layout

\* One more rule is written at the end of the sheet, and the element is
\* summarized again.
AddRule(rule) ==
    /\ Len(sheetRules) < MaxRules
    /\ sheetRules' = Append(sheetRules, rule)
    /\ elementLayout' =
         buildLayoutSummary(styledElement[1], StyleContextOf(sheetRules')).layout
    /\ UNCHANGED <<styledElement, pageVars, textVars, propVars, sheetVars,
                   dropVars, pickerVars>>

NextStyle == \E rule \in StyleRulePool : AddRule(rule)

StyleSpec == InitStyled /\ [][NextStyle]_vars

\* ------------------------------------------------------------------------
\* The group of one property name
\* ------------------------------------------------------------------------

\* Segments in one property name.
MaxSegments == 4

\* The words a property name is written from.
PropWords ==
    {"padding", "margin", "border", "radius", "background", "font",
     "transition", "animation", "color", "top", "left"}

\* One more segment is written at the end of the name, and the name is
\* normalized again.
AppendSegment(word) ==
    /\ Len(propName) < MaxSegments
    /\ propName' = Append(propName, word)
    /\ propGroup' = normalizePropertyGroup(propName')
    /\ UNCHANGED <<pageVars, textVars, styleVars, sheetVars, dropVars,
                   pickerVars>>

NextProp == \E word \in PropWords : AppendSegment(word)

PropSpec == Init /\ [][NextProp]_vars

\* ------------------------------------------------------------------------
\* The normalized form of one text
\* ------------------------------------------------------------------------

\* Characters in one text.
MaxTextLen == 4

\* The characters a text is written from.
TextChars == {"a", "b", " ", "\n", "\t"}

\* One more character is written at the end of the text, and the text is
\* normalized again.
AppendChar(c) ==
    /\ Len(nodeValue) < MaxTextLen
    /\ nodeValue' = Append(nodeValue, c)
    /\ normalizedValue' = normalizeTextNodeValue(nodeValue')
    /\ UNCHANGED <<pageVars, propVars, styleVars, sheetVars, dropVars,
                   pickerVars>>

NextText == \E c \in TextChars : AppendChar(c)

TextSpec == Init /\ [][NextText]_vars

\* ------------------------------------------------------------------------
\* The rules extracted from one style sheet
\* ------------------------------------------------------------------------

\* Rules in one sheet, nested ones included.
MaxSheetRules == 3

\* The rules of a rule list and below them.
RECURSIVE RuleCount(_)
RuleCount(rules) ==
    IF rules = <<>> THEN 0
    ELSE 1 + RuleCount(Head(rules).cssRules) + RuleCount(Tail(rules))

\* The rules without nested rules a sheet is written from.
\*   .a { display: flex }     p { gap: 4px }
\*   a rule of a kind that has no cssRules, such as @font-face
PlainRules ==
    {StyleRule(".a", <<Decl(<<"display">>, "flex")>>),
     StyleRule("p", <<Decl(<<"gap">>, "4px")>>),
     GroupRule("other", "", <<>>)}

\* The grouping rules a sheet is written from, as type and condition.
\*   @media { }  @media screen { }  @media print { }
\*   @supports (display: grid) { }  @supports (display: none-such) { }
\*   @supports with a condition CSS.supports raises for, and one met where
\*   CSS.supports is no function
\*   @layer { }  a grouping rule whose cssRules cannot be read
Groupings ==
    {<<"media", "">>, <<"media", "screen">>, <<"media", "print">>,
     <<"supports", "(display: grid)">>, <<"supports", "(display: none-such)">>,
     <<"supports", "(throws)">>, <<"supports", "(no-api)">>,
     <<"layer", "">>, <<"denied", "">>}

\* Lines 347-354 and 530 for the sheet.
Extract(sheet) ==
    /\ styleSheet' = sheet
    /\ activeRules' = extractActiveStyleRules(sheet)
    /\ sheetBuild' = BuiltUnder(sheet, activeRules')

\* The style block gets its sheet, with no rule in it.
AttachSheet ==
    /\ styleSheet.isNull
    /\ Extract(Sheet(""))
    /\ UNCHANGED <<pageVars, textVars, propVars, styleVars, dropVars,
                   pickerVars>>

\* One more rule without nested rules is written at the end of the sheet.
WriteRule(rule) ==
    /\ ~styleSheet.isNull
    /\ RuleCount(styleSheet.cssRules) < MaxSheetRules
    /\ Extract([styleSheet EXCEPT !.cssRules = Append(@, rule)])
    /\ UNCHANGED <<pageVars, textVars, propVars, styleVars, dropVars,
                   pickerVars>>

\* The rules of the sheet from the given place on are put into one
\* grouping rule.
GroupRules(type, conditionText, from) ==
    /\ ~styleSheet.isNull
    /\ RuleCount(styleSheet.cssRules) < MaxSheetRules
    /\ from \in 1..(Len(styleSheet.cssRules) + 1)
    /\ Extract([styleSheet EXCEPT
                  !.cssRules =
                      Append(SubSeq(@, 1, from - 1),
                             GroupRule(type, conditionText,
                                       SubSeq(@, from, Len(@))))])
    /\ UNCHANGED <<pageVars, textVars, propVars, styleVars, dropVars,
                   pickerVars>>

NextSheet ==
    \/ AttachSheet
    \/ \E rule \in PlainRules : WriteRule(rule)
    \/ \E grouping \in Groupings, from \in 1..MaxSheetRules :
         GroupRules(grouping[1], grouping[2], from)

SheetSpec == Init /\ [][NextSheet]_vars

\* ------------------------------------------------------------------------
\* File drop (addFileDrop)
\* ------------------------------------------------------------------------

\* Nested dragenter events counted by one panel.
MaxDragDepth == 3

\* The files a drop can carry; their text is the file's name here.
DroppedFiles == {"one.html", "two.css"}

\* Where a drop event is targeted: in a panel, or elsewhere on the page.
DropTargets == Panels \cup {"page"}

\* Mutant of LeaveCounter: the counter is decremented without the clamp.
LeaveCounterUnclamped(counter) == counter - 1

\* Math.max(0, dragCounter - 1) (line 632).
LeaveCounter(counter) == IF counter - 1 > 0 THEN counter - 1 ELSE 0

\* onDragEnter (lines 622-627) of a panel; files tells whether the event's
\* dataTransfer types include "Files".
DragEnter(panel, files) ==
    /\ dragCounter[panel] < MaxDragDepth
    /\ dragEvent' = "dragenter"
    /\ IF files
       THEN /\ dragCounter' = [dragCounter EXCEPT ![panel] = @ + 1]
            /\ isDragover' = [isDragover EXCEPT ![panel] = TRUE]
       ELSE UNCHANGED <<dragCounter, isDragover>>
    /\ UNCHANGED <<textareaValue, fileReads, pageVars, textVars, propVars,
                   styleVars, sheetVars, pickerVars>>

\* onDragLeave (lines 629-634).
DragLeave(panel, files) ==
    /\ dragEvent' = "dragleave"
    /\ IF files
       THEN /\ dragCounter' =
                 [dragCounter EXCEPT ![panel] = LeaveCounter(@)]
            /\ isDragover' =
                 [isDragover EXCEPT
                    ![panel] = IF dragCounter'[panel] = 0 THEN FALSE ELSE @]
       ELSE UNCHANGED <<dragCounter, isDragover>>
    /\ UNCHANGED <<textareaValue, fileReads, pageVars, textVars, propVars,
                   styleVars, sheetVars, pickerVars>>

\* onDragOver (lines 636-640): only the event is changed.
DragOver(panel, files) ==
    /\ dragEvent' = "dragover"
    /\ UNCHANGED <<dragCounter, isDragover, textareaValue, fileReads, pageVars,
                   textVars, propVars, styleVars, sheetVars, pickerVars>>

\* clear (lines 655-658), which every addFileDrop call registers on the
\* window: the listeners of all panels run.
Cleared ==
    /\ dragCounter' = [panel \in Panels |-> 0]
    /\ isDragover' = [panel \in Panels |-> FALSE]

\* A drop event targeted at target: the capturing window listeners (line
\* 667) run first, then onDrop (lines 642-653) of the panel it is in, which
\* starts reading the first file if there is one.  dropped is <<>> or
\* <<the first file>>.
Drop(target, files, dropped) ==
    /\ dragEvent' = "drop"
    /\ Cleared
    /\ fileReads' =
         IF target \in Panels /\ files /\ dropped # <<>>
         THEN fileReads \cup {<<target, dropped[1]>>}
         ELSE fileReads
    /\ UNCHANGED <<textareaValue, pageVars, textVars, propVars, styleVars,
                   sheetVars, pickerVars>>

\* A dragend event reaches the window (line 666).
DragEnd ==
    /\ dragEvent' = "dragend"
    /\ Cleared
    /\ UNCHANGED <<textareaValue, fileReads, pageVars, textVars, propVars,
                   styleVars, sheetVars, pickerVars>>

\* The window loses focus (line 668).
Blur ==
    /\ dragEvent' = "blur"
    /\ Cleared
    /\ UNCHANGED <<textareaValue, fileReads, pageVars, textVars, propVars,
                   styleVars, sheetVars, pickerVars>>

\* file.text() of a dropped file resolves and onDrop goes on to
\* setTextareaValue (lines 651-652).
FileRead(read) ==
    /\ read \in fileReads
    /\ fileReads' = fileReads \ {read}
    /\ textareaValue' = [textareaValue EXCEPT ![read[1]] = read[2]]
    /\ UNCHANGED <<dragCounter, isDragover, dragEvent, pageVars, textVars,
                   propVars, styleVars, sheetVars, pickerVars>>

NextDrop ==
    \/ \E panel \in Panels, files \in BOOLEAN : DragEnter(panel, files)
    \/ \E panel \in Panels, files \in BOOLEAN : DragLeave(panel, files)
    \/ \E panel \in Panels, files \in BOOLEAN : DragOver(panel, files)
    \/ \E target \in DropTargets, files \in BOOLEAN,
          dropped \in {<<>>} \cup {<<file>> : file \in DroppedFiles} :
         Drop(target, files, dropped)
    \/ DragEnd
    \/ Blur
    \/ \E read \in Panels \X DroppedFiles : FileRead(read)

DropSpec == Init /\ [][NextDrop]_vars

\* ------------------------------------------------------------------------
\* File picker (addFilePicker)
\* ------------------------------------------------------------------------

\* Clicks that take the fallback path, each making one temporary input.
MaxPicks == 1

\* setTimeout(cleanup, 0) callbacks one input can have waiting.
MaxFocusTimeouts == 2

\* The file a picker can return; its text is the file's name here.
PickedFiles == {"three.html"}

\* The temporary input of one click of the button of panel (lines 713-719,
\* 739-746): in the document, its onFocus listening on the window, its picker
\* open, the 2500 ms timer set.
TempInput(panel) ==
    [panel |-> panel, attached |-> TRUE, listening |-> TRUE,
     didChange |-> FALSE, picker |-> "open", zeroTimeouts |-> 0,
     timer |-> "pending"]

\* cleanup (lines 720-723): input.remove() and removeEventListener leave an
\* input that is out of the document, or a listener that is not registered,
\* as it is.
cleanup(input) == [input EXCEPT !.attached = FALSE, !.listening = FALSE]

\* Mutant of TimerCleans: the 2500 ms callback never cleans up.
TimerCleansNever(input) == input

\* The callback of the 2500 ms timer (lines 744-746).
TimerCleans(input) == IF ~input.didChange THEN cleanup(input) ELSE input

\* The click listener of a file button (lines 691-747).  native tells
\* whether showOpenFilePicker exists and the button has picker types; picked
\* is what that picker resolves to, <<>> when the user cancels.
PickerClick(panel, native, picked) ==
    /\ IF native
       THEN /\ fileReads' =
                 IF picked = <<>> THEN fileReads
                 ELSE fileReads \cup {<<panel, picked[1]>>}
            /\ UNCHANGED fileInputs
       ELSE /\ Len(fileInputs) < MaxPicks
            /\ picked = <<>>
            /\ fileInputs' = Append(fileInputs, TempInput(panel))
            /\ UNCHANGED fileReads
    /\ UNCHANGED <<dragCounter, isDragover, textareaValue, dragEvent, pageVars,
                   textVars, propVars, styleVars, sheetVars>>

\* The picker of input i closes with a choice and the input's change
\* listener runs (lines 730-737); picked is <<>> when input.files is empty.
Change(i, picked) ==
    /\ i \in DOMAIN fileInputs
    /\ fileInputs[i].picker = "open"
    /\ fileInputs' =
         [fileInputs EXCEPT
            ![i] = cleanup([@ EXCEPT !.didChange = TRUE, !.picker = "closed"])]
    /\ fileReads' =
         IF picked = <<>> THEN fileReads
         ELSE fileReads \cup {<<fileInputs[i].panel, picked[1]>>}
    /\ UNCHANGED <<dragCounter, isDragover, textareaValue, dragEvent, pageVars,
                   textVars, propVars, styleVars, sheetVars>>

\* The user cancels the picker of input i: no event reaches the input.
Cancel(i) ==
    /\ i \in DOMAIN fileInputs
    /\ fileInputs[i].picker = "open"
    /\ fileInputs' = [fileInputs EXCEPT ![i].picker = "closed"]
    /\ UNCHANGED <<dropVars, pageVars, textVars, propVars, styleVars,
                   sheetVars>>

\* A focus event reaches the window: onFocus (lines 725-728) of every input
\* still listening sets a zero timeout.
WindowFocus ==
    /\ \E i \in DOMAIN fileInputs : fileInputs[i].listening
    /\ \A i \in DOMAIN fileInputs :
         fileInputs[i].listening =>
           fileInputs[i].zeroTimeouts < MaxFocusTimeouts
    /\ fileInputs' =
         [i \in DOMAIN fileInputs |->
            IF fileInputs[i].listening
            THEN [fileInputs[i] EXCEPT !.zeroTimeouts = @ + 1]
            ELSE fileInputs[i]]
    /\ UNCHANGED <<dropVars, pageVars, textVars, propVars, styleVars,
                   sheetVars>>

\* A zero timeout of input i fires (line 727).
ZeroTimeout(i) ==
    /\ i \in DOMAIN fileInputs
    /\ fileInputs[i].zeroTimeouts > 0
    /\ fileInputs' =
         [fileInputs EXCEPT
            ![i] = cleanup([@ EXCEPT !.zeroTimeouts = @ - 1])]
    /\ UNCHANGED <<dropVars, pageVars, textVars, propVars, styleVars,
                   sheetVars>>

\* The 2500 ms timer of input i fires (lines 744-746).
Timer2500(i) ==
    /\ i \in DOMAIN fileInputs
    /\ fileInputs[i].timer = "pending"
    /\ fileInputs' =
         [fileInputs EXCEPT ![i] = TimerCleans([@ EXCEPT !.timer = "fired"])]
    /\ UNCHANGED <<dropVars, pageVars, textVars, propVars, styleVars,
                   sheetVars>>

NextPicker ==
    \/ \E panel \in Panels, native \in BOOLEAN,
          picked \in {<<>>} \cup {<<file>> : file \in PickedFiles} :
         PickerClick(panel, native, picked)
    \/ \E i \in 1..MaxPicks,
          picked \in {<<>>} \cup {<<file>> : file \in PickedFiles} :
         Change(i, picked)
    \/ \E i \in 1..MaxPicks : Cancel(i)
    \/ WindowFocus
    \/ \E i \in 1..MaxPicks : ZeroTimeout(i)
    \/ \E i \in 1..MaxPicks : Timer2500(i)
    \/ \E read \in Panels \X PickedFiles : FileRead(read)

\* Timers that are set fire: the page's event loop runs each of them.
PickerSpec ==
    /\ Init
    /\ [][NextPicker]_vars
    /\ \A i \in 1..MaxPicks :
         WF_vars(Timer2500(i)) /\ WF_vars(ZeroTimeout(i))

\* ------------------------------------------------------------------------
\* Vocabulary of the properties
\* ------------------------------------------------------------------------

Builds == 1..Len(builds)

\* A sandbox document nothing was injected into.
FreshDocument == [styleText |-> "", bodyAttributes |-> <<>>, bodyMarkup |-> <<>>]

\* The sandbox document as it is now.
Document ==
    [styleText |-> styleText, bodyAttributes |-> bodyAttributes,
     bodyMarkup |-> bodyMarkup]

\* The document that holds exactly what (html, css) supplies.
DocumentOf(html, css) ==
    [styleText |-> css, bodyAttributes |-> ParsedBodyAttributes(html),
     bodyMarkup |-> ParsedBodyMarkup(html)]

\* The tree a build on the sandbox document st reads after its injection.
TreeRead(st) ==
    elementToTree(ReadContext(st, "ok").root, ReadContext(st, "ok").ctx).node

\* The tree of the pair (html, css) alone: what the path the build took
\* computes when no other build touches the sandbox.
OwnTree(html, css, path) ==
    IF path = "fallback"
    THEN elementToTree(CatchContext(html).root, CatchContext(html).ctx).node
    ELSE TreeRead(Inject(FreshDocument, html, css).st)

RECURSIVE NoLayoutAnywhere(_)
NoLayoutAnywhere(node) ==
    /\ node.layout = <<>>
    /\ \A i \in 1..Len(node.children) : NoLayoutAnywhere(node.children[i])

RECURSIVE ChildlessWithoutLayout(_)
ChildlessWithoutLayout(node) ==
    /\ (node.type = "element" /\ node.children = <<>>) => node.layout = <<>>
    /\ \A i \in 1..Len(node.children) : ChildlessWithoutLayout(node.children[i])

\* Some element of the tree has children / has none.
RECURSIVE SomeParent(_)
SomeParent(node) ==
    /\ node.type = "element"
    /\ \/ node.children # <<>> /\ node.layout # <<>>
       \/ \E i \in 1..Len(node.children) : SomeParent(node.children[i])

RECURSIVE SomeChildless(_)
SomeChildless(node) ==
    /\ node.type = "element"
    /\ \/ node.children = <<>>
       \/ \E i \in 1..Len(node.children) : SomeChildless(node.children[i])

\* ------------------------------------------------------------------------
\* C1 - C10
\* ------------------------------------------------------------------------

\* C1: builds on the shared Render Context never overlap: at no time have
\* two builds injected their content into the sandbox without having read
\* the tree back from it.
C1_BuildsNeverOverlap ==
    Cardinality({b \in Builds : builds[b].pc = "awaitFrame"}) <= 1

\* C2: the tree and the counts a build renders are those of the (html, css)
\* pair passed to that build.
C2_RendersOwnPair ==
    \A b \in Builds :
      builds[b].rendered =>
        /\ builds[b].tree =
             <<OwnTree(builds[b].html, builds[b].css, builds[b].path)>>
        /\ builds[b].counts =
             <<countTreeNodes(
                 OwnTree(builds[b].html, builds[b].css, builds[b].path))>>

\* C3: once every issued build has finished, the displayed tree and counts
\* are those rendered by the most recently issued generate request.
C3_NewestResultDisplayed ==
    (/\ builds # <<>>
     /\ \A b \in Builds : builds[b].pc = "done"
     /\ Last(builds).rendered)
    => /\ treeContainer = Last(builds).tree
       /\ treeMeta = Last(builds).counts

\* C4: whatever builds ran on the sandbox before, an injection that
\* completes leaves in it exactly the supplied CSS and the parsed input's
\* body attributes and markup, so that building again from the same
\* (html, css) gives the same tree.
C4_InjectionReplacesAll ==
    \A html \in HtmlInputs, css \in CssInputs :
      ~Inject(Document, html, css).threw =>
        /\ Inject(Document, html, css).st = DocumentOf(html, css)
        /\ TreeRead(Inject(Inject(Document, html, css).st, html, css).st)
             = TreeRead(Inject(Document, html, css).st)

\* A build waits for its frame on a sandbox that an earlier build with other
\* body attributes and other CSS had filled.
C4_Witness ==
    \E a, b \in Builds :
      /\ a < b
      /\ builds[a].path = "sandbox" /\ builds[a].pc = "done"
      /\ ParsedBodyAttributes(builds[a].html) # <<>>
      /\ builds[a].css # builds[b].css
      /\ builds[b].pc = "awaitFrame"
      /\ ParsedBodyAttributes(builds[b].html) = <<>>
      /\ Document = DocumentOf(builds[b].html, builds[b].css)

\* C5: every build that was started ends with a tree rendered.
C5_AlwaysRenders ==
    \A b \in Builds : builds[b].pc = "done" => builds[b].rendered

\* C6: a build whose context construction or injection failed renders the
\* tree of the raw HTML alone, and no element of it has a layout summary.
C6_FallbackHasNoLayout ==
    \A b \in Builds :
      (builds[b].pc = "done" /\ builds[b].path = "fallback") =>
        /\ builds[b].rendered
        /\ builds[b].tree =
             <<elementToTree(
                 BodyElement(ParsedBodyAttributes(builds[b].html),
                             ParsedBodyMarkup(builds[b].html)), NullCtx).node>>
        /\ NoLayoutAnywhere(builds[b].tree[1])

\* The sandbox exists, the injection of a build raised at setAttribute, and
\* the build displayed the style-less tree of its HTML, which has an element
\* with a child.
C6_Witness ==
    \E b \in Builds :
      /\ sandboxEnvPromise = "fulfilled"
      /\ builds[b].path = "fallback" /\ builds[b].rendered
      /\ builds[b].css = "flex"
      /\ builds[b].tree[1].children # <<>>
      /\ builds[b].tree[1].children[1].children # <<>>
      /\ treeContainer = builds[b].tree

\* C7: the Layout Summary Builder never throws, so no tree build is ended by
\* an error raised while reading computed style.
C7_SummaryNeverThrows ==
    \A b \in Builds : ~builds[b].threw

\* C8: once sandbox construction has failed it stays failed, no second
\* sandbox is created, and every build takes the no-style fallback.
C8_FailedSandboxStaysFailed ==
    /\ [](sandboxEnvPromise = "rejected" =>
            /\ frames = 1
            /\ \A b \in Builds :
                 /\ builds[b].pc = "done" /\ builds[b].path = "fallback"
                 /\ builds[b].rendered
                 /\ NoLayoutAnywhere(builds[b].tree[1]))
    /\ [][sandboxEnvPromise = "rejected" =>
            (sandboxEnvPromise' = "rejected" /\ frames' = frames)]_vars

\* The construction failed and two builds fell back, each displaying a tree
\* without layout summaries although its elements have children.
C8_Witness ==
    /\ sandboxEnvPromise = "rejected"
    /\ Len(builds) >= 2
    /\ \A b \in 1..2 :
         /\ builds[b].path = "fallback" /\ builds[b].rendered
         /\ builds[b].html = "cards" /\ builds[b].css = "flex"
         /\ builds[b].tree[1].children # <<>>

\* C9: at most one sandbox is ever created, none before the first build is
\* started, and a build started while the sandbox is loading waits for that
\* same sandbox.
C9_OneSandbox ==
    /\ frames <= 1
    /\ (builds = <<>>) <=> (frames = 0)
    /\ (sandboxEnvPromise = "null") <=> (frames = 0)
    /\ \A b \in Builds :
         builds[b].pc = "awaitEnv" => sandboxEnvPromise = "pending"

\* Two builds wait for the one sandbox that is still loading.
C9_Witness ==
    /\ Len(builds) >= 2
    /\ builds[1].pc = "awaitEnv" /\ builds[2].pc = "awaitEnv"
    /\ frames = 1

\* C10: in every tree built, an element whose converted child list is empty
\* has no layout summary.
C10_ChildlessHasNoLayout ==
    /\ \A b \in Builds :
         builds[b].rendered => ChildlessWithoutLayout(builds[b].tree[1])
    /\ treeContainer # <<>> => ChildlessWithoutLayout(treeContainer[1])

\* A tree was built with a style context from a document that has elements
\* without converted children next to elements with a layout summary.
C10_Witness ==
    \E b \in Builds :
      /\ builds[b].rendered /\ builds[b].path = "sandbox"
      /\ builds[b].html = "page" /\ builds[b].css = "flex"
      /\ SomeChildless(builds[b].tree[1])
      /\ SomeParent(builds[b].tree[1])
      /\ treeContainer = builds[b].tree

\* ------------------------------------------------------------------------
\* C11 - C20
\* ------------------------------------------------------------------------

\* The contents of the text nodes of a tree, in document order.
RECURSIVE TextsOf(_)
TextsOf(node) ==
    IF node.type = "text" THEN <<node.text>>
    ELSE Flatten([i \in 1..Len(node.children) |-> TextsOf(node.children[i])])

\* The character data of the text nodes of a node list and of the elements
\* in it, in document order.
RECURSIVE SourceTexts(_)
SourceTexts(childNodes) ==
    Flatten([i \in 1..Len(childNodes) |->
               IF childNodes[i].nodeType = "text" THEN <<childNodes[i].text>>
               ELSE SourceTexts(childNodes[i].childNodes)])

\* A text in normalized form: not empty, white space only as single space
\* characters, none of them first or last.
IsNormalizedText(text) ==
    /\ text # <<>>
    /\ \A i \in 1..Len(text) : IsSpace(text[i]) => text[i] = " "
    /\ ~IsSpace(text[1]) /\ ~IsSpace(text[Len(text)])
    /\ \A i \in 1..(Len(text) - 1) : ~(IsSpace(text[i]) /\ IsSpace(text[i + 1]))

\* The normalized forms of the texts that are not empty once normalized.
KeptTexts(texts) ==
    SelectSeq([i \in 1..Len(texts) |-> normalizeTextNodeValue(texts[i])],
              LAMBDA t : t # <<>>)

\* C11: no Text node of a built tree has empty content: a text child whose
\* content is empty after normalization yields no node, and every Text node
\* holds the normalized content of the text child it was made from.
C11_TextNodesNormalized ==
    /\ \A b \in Builds :
         builds[b].rendered =>
           /\ \A i \in 1..Len(TextsOf(builds[b].tree[1])) :
                IsNormalizedText(TextsOf(builds[b].tree[1])[i])
           /\ builds[b].path = "fallback" =>
                TextsOf(builds[b].tree[1]) =
                  KeptTexts(SourceTexts(ParsedBodyMarkup(builds[b].html)))
    /\ \A b \in Builds :
         builds[b].pc = "awaitFrame" =>
           TextsOf(TreeRead(Document)) = KeptTexts(SourceTexts(bodyMarkup))

\* A tree was built from a document that has white-space-only text children
\* next to a text whose normalized form differs from it: the tree has the
\* one Text node "a b".
C11_Witness ==
    \E b \in Builds :
      /\ builds[b].rendered /\ builds[b].html = "page"
      /\ Len(SourceTexts(ParsedBodyMarkup("page"))) = 5
      /\ TextsOf(builds[b].tree[1]) = << <<"a", " ", "b">> >>
      /\ treeContainer = builds[b].tree

RECURSIVE SumSeq(_)
SumSeq(ns) == IF ns = <<>> THEN 0 ELSE Head(ns) + SumSeq(Tail(ns))

\* The nodes of the given type in a tree, its root included.
RECURSIVE NumNodes(_, _)
NumNodes(node, type) ==
    (IF node.type = type THEN 1 ELSE 0)
    + SumSeq([i \in 1..Len(node.children) |-> NumNodes(node.children[i], type)])

\* The element nodes of a markup: those of a node list and below them.
RECURSIVE MarkupElements(_)
MarkupElements(childNodes) ==
    SumSeq([i \in 1..Len(childNodes) |->
              IF childNodes[i].nodeType = "element"
              THEN 1 + MarkupElements(childNodes[i].childNodes)
              ELSE 0])

\* A build whose tree is that of its own HTML: it took the fallback, which
\* parses the HTML it was given, or it is the only build of the session.
ReadsOwnMarkup(b) == builds[b].path = "fallback" \/ Len(builds) = 1

Styled == styledElement[1]

SheetContext == StyleContextOf(sheetRules)

\* The style context without the rules whose selector element.matches
\* cannot parse.
WithoutBrokenRules(ctx) ==
    [ctx EXCEPT !.rules =
       SelectSeq(@, LAMBDA rule : ~MatchesThrows(rule.selectorText))]

\* C13: a rule whose selector matching raises an error does not abort the
\* statistics computation of the element: the statistics for a rule list
\* that has such rules equal those for the list with them removed, and the
\* summary built from them is that of the list with them removed.
C13_BrokenSelectorSkipped ==
    /\ getCssMatchStats(Styled, SheetContext)
         = getCssMatchStats(Styled, WithoutBrokenRules(SheetContext))
    /\ elementLayout
         = buildLayoutSummary(Styled, WithoutBrokenRules(SheetContext)).layout
    /\ elementLayout # <<>>

\* The sheet starts with a rule whose selector cannot be matched, followed
\* by two rules that match the element: both are counted.
C13_Witness ==
    /\ Len(sheetRules) = 3
    /\ MatchesThrows(sheetRules[1].selectorText)
    /\ \A i \in 2..3 : /\ ~MatchesThrows(sheetRules[i].selectorText)
                       /\ Matches(Styled, sheetRules[i].selectorText)
    /\ elementLayout[1].rulesCount = 2

\* A name written border-...-radius.
IsRadiusVariant(name) ==
    Len(name) > 1 /\ name[1] = "border" /\ name[Len(name)] = "radius"

\* A name the table of groups has a row for.
IsGrouped(name) ==
    /\ name # <<>>
    /\ \/ name[1] \in {"padding", "margin"} /\ Len(name) > 1
       \/ name[1] \in {"border", "background", "font", "transition",
                       "animation"}

\* C14: property-group normalization follows the table for every property
\* name: padding-* maps to padding, margin-* to margin, every border-radius
\* variant (corner longhands ending in "radius" included) to border-radius
\* and not to border, every other border name to border, every background,
\* font, transition and animation name to that word, and every other name
\* to itself.
C14_GroupTable ==
    /\ (Len(propName) > 1 /\ propName[1] \in {"padding", "margin"})
         => propGroup = <<propName[1]>>
    /\ IsRadiusVariant(propName) => propGroup = <<"border", "radius">>
    /\ (propName # <<>> /\ propName[1] = "border"
          /\ ~IsRadiusVariant(propName))
         => propGroup = <<"border">>
    /\ (propName # <<>>
          /\ propName[1] \in {"background", "font", "transition", "animation"})
         => propGroup = <<propName[1]>>
    /\ ~IsGrouped(propName) => propGroup = propName
    /\ normalizePropertyGroup(<<"padding", "top">>) = <<"padding">>
    /\ normalizePropertyGroup(<<"padding", "left">>) = <<"padding">>
    /\ normalizePropertyGroup(<<"color">>) = <<"color">>

\* The corner longhand border-top-left-radius was normalized.
C14_Witness ==
    /\ propName = <<"border", "top", "left", "radius">>
    /\ propGroup = <<"border", "radius">>

\* Property-group counts the classification is examined for.
MaxPropsCount == 30

\* C15: for every propsCount n >= 0 the classification is "low" iff n <= 8,
\* "med" iff 9 <= n <= 18 and "high" iff n >= 19, and the propsLevel of
\* every layout summary is the classification of its own propsCount.
C15_LevelOfCount ==
    /\ \A n \in 0..MaxPropsCount :
         /\ classifyPropsCount(n) = "low" <=> n <= 8
         /\ classifyPropsCount(n) = "med" <=> (9 <= n /\ n <= 18)
         /\ classifyPropsCount(n) = "high" <=> n >= 19
    /\ elementLayout # <<>> =>
         /\ elementLayout[1].propsCount
              = Cardinality(getCssMatchStats(Styled, SheetContext).propGroups)
         /\ elementLayout[1].propsLevel =
              CASE elementLayout[1].propsCount <= 8 -> "low"
                [] elementLayout[1].propsCount >= 19 -> "high"
                [] OTHER -> "med"

\* Three rules match the element and declare nineteen property groups
\* between them: the summary's level is "high".
C15_Witness ==
    /\ elementLayout # <<>>
    /\ elementLayout[1].rulesCount = 3
    /\ elementLayout[1].propsCount = 19
    /\ elementLayout[1].propsLevel = "high"

\* The element's layout summary and its chips.
Layout == elementLayout[1]

HasChip(name) == \E i \in 1..Len(Layout.chips) : Layout.chips[i].prop = name

ChipOf(name) ==
    Layout.chips[CHOOSE i \in 1..Len(Layout.chips) : Layout.chips[i].prop = name]

\* The property is declared by a rule of the sheet that matches the element
\* or by the element's inline style.
IsDeclared(name) ==
    \/ \E i \in 1..Len(sheetRules) :
         /\ ~MatchesThrows(sheetRules[i].selectorText)
         /\ Matches(Styled, sheetRules[i].selectorText)
         /\ \E d \in 1..Len(sheetRules[i].style) :
              sheetRules[i].style[d].prop = name
    \/ \E d \in 1..Len(InlineStyle(Styled.styleAttr)) :
         InlineStyle(Styled.styleAttr)[d].prop = name

\* The element's computed display value.
DisplayValue == getComputedStyle(Styled, SheetContext.win)[<<"display">>]

ContainsFlex(displayValue) == displayValue \in {"flex", "inline-flex"}

ContainsGrid(displayValue) == displayValue \in {"grid", "inline-grid"}

FlexProps == {<<"flex", "direction">>, <<"justify", "content">>,
              <<"align", "items">>}

\* C16: each of the chips flex-direction, justify-content and align-items is
\* in the summary exactly when the computed display value contains "flex"
\* or the property is declared by a matched rule or the inline style; for a
\* display: flex element that declares none of them all three are there,
\* with declared = false.
C16_FlexChips ==
    /\ \A name \in FlexProps :
         HasChip(name) <=> (ContainsFlex(DisplayValue) \/ IsDeclared(name))
    /\ (DisplayValue = "flex" /\ \A name \in FlexProps : ~IsDeclared(name))
         => \A name \in FlexProps : HasChip(name) /\ ~ChipOf(name).declared

\* A rule makes the element display: flex and nothing declares the three
\* flex properties: their chips are there, none flagged as declared.
C16_Witness ==
    /\ DisplayValue = "flex"
    /\ IsDeclared(<<"display">>)
    /\ \A name \in FlexProps :
         ~IsDeclared(name) /\ HasChip(name) /\ ~ChipOf(name).declared

ChipOrder(name) == CHOOSE i \in 1..Len(LAYOUT_PROPS) : LAYOUT_PROPS[i] = name

HasContent(html) ==
    \E i \in 1..Len(HtmlChars(html)) : ~IsSpace(HtmlChars(html)[i])

\* C18: a tree build is started only for non-empty HTML: no build has HTML
\* that is empty or only white space, and a generate click or event that
\* starts no build creates no sandbox and leaves the sandbox document, the
\* builds under way, the displayed tree and the displayed counts as they
\* were.
C18_BlankStartsNothing ==
    /\ [](\A b \in Builds : HasContent(builds[b].html))
    /\ [][(requests' # requests /\ Len(builds') = Len(builds)) =>
            UNCHANGED <<sandboxEnvPromise, frames, styleText, bodyAttributes,
                        bodyMarkup, builds, treeContainer, treeMeta>>]_vars

\* Of two generate requests one was for white-space-only HTML: there is the
\* one build of the other, and its tree is displayed.
C18_Witness ==
    /\ requests = 2 /\ Len(builds) = 1
    /\ HasContent(builds[1].html) /\ ~HasContent("blank")
    /\ builds[1].rendered
    /\ treeContainer = builds[1].tree /\ treeMeta = builds[1].counts
    /\ frames = 1

\* C19: text normalization is idempotent, normalize(normalize(s)) =
\* normalize(s), and its result has no white space first or last nor two
\* white space characters in a row; "  a   b\n c " becomes "a b c".
C19_NormalizeIdempotent ==
    /\ normalizeTextNodeValue(normalizedValue) = normalizedValue
    /\ normalizedValue # <<>> =>
         /\ ~IsSpace(normalizedValue[1])
         /\ ~IsSpace(normalizedValue[Len(normalizedValue)])
    /\ \A i \in 1..(Len(normalizedValue) - 1) :
         ~(IsSpace(normalizedValue[i]) /\ IsSpace(normalizedValue[i + 1]))
    /\ normalizeTextNodeValue(
         <<" ", " ", "a", " ", " ", " ", "b", "\n", " ", "c", " ">>)
         = <<"a", " ", "b", " ", "c">>

\* A text with two white space characters between its letters was
\* normalized to the letters with one space between them.
C19_Witness ==
    /\ nodeValue = <<"a", "\n", "\t", "b">>
    /\ normalizedValue = <<"a", " ", "b">>

\* ------------------------------------------------------------------------
\* C21 - C25
\* ------------------------------------------------------------------------

\* The extracted rules whose selector matches the element.
MatchingRules ==
    SelectSeq(SheetContext.rules,
              LAMBDA rule : /\ ~MatchesThrows(rule.selectorText)
                            /\ Matches(Styled, rule.selectorText))

\* The element's inline declarations.
InlineDeclarations == InlineStyle(Styled.styleAttr)

\* The declarations of the matching rules, rule after rule, then the
\* inline ones.
CountedDeclarations ==
    Flatten([i \in 1..Len(MatchingRules) |-> MatchingRules[i].style])
      \o InlineDeclarations

\* C21: rulesCount is the number of extracted rules whose selector matches
\* the element, plus 1 if the element has at least one inline declaration
\* (never more, however many there are); longhandsCount is the number of
\* declarations of all matching rules, a property declared by several rules
\* counted each time, plus the inline declarations; propsCount is the
\* number of distinct normalized groups among those declarations.
C21_SummaryCounts ==
    /\ Layout.rulesCount =
         Len(MatchingRules) + (IF Len(InlineDeclarations) >= 1 THEN 1 ELSE 0)
    /\ Layout.longhandsCount = Len(CountedDeclarations)
    /\ Layout.propsCount =
         Cardinality({normalizePropertyGroup(CountedDeclarations[i].prop) :
                        i \in 1..Len(CountedDeclarations)})

\* The element has two inline declarations of one group, and two of the
\* three rules of the sheet match it, one of them declaring a property of
\* that group too: three rules counted, more declarations than groups.
C21_Witness ==
    /\ Len(InlineDeclarations) = 2
    /\ Len(sheetRules) = 3 /\ Len(MatchingRules) = 2
    /\ Layout.rulesCount = 3
    /\ Layout.longhandsCount = 11
    /\ Layout.propsCount = 9

\* A rule whose cssRules cannot be read is in the rule list or below it.
RECURSIVE HasDenied(_)
HasDenied(rules) ==
    \E i \in 1..Len(rules) :
      CssRulesThrows(rules[i]) \/ HasDenied(rules[i].cssRules)

\* The depth-first, source-order flattening of a rule tree: a style rule is
\* kept; the children of a media rule are visited iff its condition is empty
\* or matches; those of a supports rule iff its condition holds, cannot be
\* evaluated or raises when evaluated; those of another grouping rule
\* always.
RECURSIVE Flattening(_)
Flattening(rules) ==
    Flatten([i \in 1..Len(rules) |->
      CASE rules[i].type = "style" -> <<rules[i]>>
        [] rules[i].type = "media" ->
             IF rules[i].conditionText = "" \/ MatchMedia(rules[i].conditionText)
             THEN Flattening(rules[i].cssRules)
             ELSE <<>>
        [] rules[i].type = "supports" ->
             IF CssSupports(rules[i].conditionText)
                  \in {"true", "unavailable", "throw"}
             THEN Flattening(rules[i].cssRules)
             ELSE <<>>
        [] OTHER -> Flattening(rules[i].cssRules)])

\* C22: the output of the Rule Extractor is the depth-first, source-order
\* flattening of the sheet's rule tree in which the children of a media rule
\* are visited iff its condition is empty or matches, those of a supports
\* rule iff the condition holds, cannot be evaluated or raises, and those of
\* any other grouping rule always.
C22_ExtractorFlattens ==
    (~styleSheet.isNull /\ ~HasDenied(styleSheet.cssRules))
      => activeRules = Flattening(styleSheet.cssRules)

\* The summary of the p element of the tree built under the sheet.
SheetLayout == sheetBuild[1].node.children[1].layout

\* C23: if the style sheet is null, or walking its rule tree raises an
\* error at any point, the Rule Extractor returns the empty sequence, the
\* rules collected before the error discarded, and the error does not
\* propagate: the tree is built, with a style context whose rule list is
\* empty.
C23_FailedWalkIsEmpty ==
    (\/ styleSheet.isNull
     \/ HasDenied(styleSheet.cssRules)
     \/ walk(styleSheet.cssRules, styleSheet.realm).threw)
    => /\ activeRules = <<>>
       /\ ~sheetBuild[1].threw
       /\ SheetLayout # <<>>
       /\ SheetLayout[1].rulesCount = 0 /\ SheetLayout[1].longhandsCount = 0

\* The sheet has a style rule that matches the p element, then a grouping
\* rule whose cssRules cannot be read: the walk raises after having
\* collected the style rule, no rule is extracted and the summary of p, which
\* the engine displays as flex, counts none.
C23_Witness ==
    /\ Len(styleSheet.cssRules) = 2
    /\ styleSheet.cssRules[1] = StyleRule(".a", <<Decl(<<"display">>, "flex")>>)
    /\ CssRulesThrows(styleSheet.cssRules[2])
    /\ activeRules = <<>>
    /\ SheetLayout[1].rulesCount = 0
    /\ SheetLayout[1].chips[1].value = "flex"

\* C24: for each drop panel, after any sequence of dragenter, dragleave,
\* dragover, drop, dragend and window blur events the drag counter is not
\* negative and the panel has the is-dragover highlight exactly when the
\* counter is greater than 0; after a drop, a dragend or a blur the counter
\* is 0 and the highlight is off.
C24_DragCounter ==
    /\ \A panel \in Panels :
         /\ dragCounter[panel] >= 0
         /\ isDragover[panel] <=> dragCounter[panel] > 0
    /\ dragEvent \in {"drop", "dragend", "blur"} =>
         \A panel \in Panels : dragCounter[panel] = 0 /\ ~isDragover[panel]

\* A file drag entered the html panel twice and left it once: the panel is
\* still highlighted, the css panel, on which a file was dropped before, is
\* not.
C24_Witness ==
    /\ dragEvent = "dragleave"
    /\ dragCounter["html"] = 1 /\ isDragover["html"]
    /\ dragCounter["css"] = 0 /\ ~isDragover["css"]
    /\ textareaValue["css"] = "two.css"

\* Input i is out of the document and its focus listener is unregistered.
CleanedUp(i) == ~fileInputs[i].attached /\ ~fileInputs[i].listening

\* C25: in the fallback path every temporary file input added to the
\* document is eventually removed and its window focus listener
\* unregistered, whether a file is picked, the picker is canceled or focus
\* never changes: no later than when its 2500 ms timer has fired.  Cleaning
\* up an input again changes nothing: a cleaned-up input stays so.
C25_TempInputCleanedUp ==
    /\ [](\A i \in DOMAIN fileInputs :
            fileInputs[i].timer = "fired" => CleanedUp(i))
    /\ \A i \in 1..MaxPicks :
         (Len(fileInputs) >= i) ~> (Len(fileInputs) >= i /\ CleanedUp(i))
    /\ [][\A i \in DOMAIN fileInputs : CleanedUp(i) => CleanedUp(i)']_vars

\* A focus event came while the picker was open, then a file was picked and
\* the change listener cleaned the input up; the 2500 ms timer has fired and
\* the zero timeout that cleans up once more is still waiting.
C25_Witness ==
    /\ Len(fileInputs) = 1
    /\ fileInputs[1].didChange /\ fileInputs[1].picker = "closed"
    /\ fileInputs[1].zeroTimeouts = 1
    /\ fileInputs[1].timer = "fired" /\ CleanedUp(1)
    /\ textareaValue[fileInputs[1].panel] = "three.html"
====
